---- MODULE Spec2Model ----
(***************************************************************************)
(* Model of the project tree of src/plugins/projectexplorer/projectnodes.cpp *)
(* Node, FileNode, FolderNode, VirtualFolderNode, ProjectNode, SessionNode. *)
(*                                                                         *)
(* A node is identified by its address (a number of 1..MaxNodes).  The     *)
(* code compares FileNode* and FolderNode* values with the built-in <, so  *)
(* the order of the addresses is part of the behaviour.  A path is a       *)
(* sequence of one-letter segments, letters being numbers; the order of    *)
(* two paths is the order of the strings they stand for.                   *)
(***************************************************************************)
EXTENDS Integers, Sequences, FiniteSets, TLC

VARIABLES node, log, call

vars == <<node, log, call>>

\* ---------------------------------------------------------------- bounds
\* Spec: the addresses, the file and folder names, the length of an argument list.
MaxNodes == 4
MaxSeg == 2
MaxList == 2

\* SpecBuild: the addresses, the file names of the innermost directory (the
\* directories above it hold one file), the depth of the directories below the
\* base directory, the number of nodes up to which the project's own code
\* adds nodes.
MaxBuildNodes == 6
MaxFiles == 1
MaxDepth == 2
MaxOwn == 2

\* SpecTrim: the addresses.
MaxTrimNodes == 5

\* SpecScan: the canonical directories of the file system and the entries of
\* one directory.
MaxScanDirs == 2
MaxEntries == 2

\* SpecProgress: the canonical directories of the file system.
MaxProgressDirs == 3

Segs == 1..MaxSeg
NoNode == 0

\* ------------------------------------------------------------- sequences
Last(q) == q[Len(q)]

Range(q) == {q[i] : i \in 1..Len(q)}

InsertAt(q, i, x) == SubSeq(q, 1, i - 1) \o <<x>> \o SubSeq(q, i, Len(q))

RemoveAt(q, i) == SubSeq(q, 1, i - 1) \o SubSeq(q, i + 1, Len(q))

IsInjective(q) == \A i, j \in 1..Len(q) : q[i] = q[j] => i = j

\* The elements of the set S in some order.
RECURSIVE SetToSeq(_)
SetToSeq(S) ==
    IF S = {} THEN <<>>
    ELSE LET x == CHOOSE y \in S : TRUE IN <<x>> \o SetToSeq(S \ {x})

\* All sequences without repetition over the set S, of length at most k.
RECURSIVE InjSeqs(_, _)
InjSeqs(S, k) ==
    IF k = 0 \/ S = {} THEN {<<>>}
    ELSE {<<>>} \cup UNION {{<<x>> \o q : q \in InjSeqs(S \ {x}, k - 1)} : x \in S}

\* --------------------------------------------------------------- paths
\* Utils::FileName operator< on one-letter segments: string order.
RECURSIVE PathLess(_, _)
PathLess(p, q) ==
    IF q = <<>> THEN FALSE
    ELSE IF p = <<>> THEN TRUE
    ELSE IF p[1] # q[1] THEN p[1] < q[1]
    ELSE PathLess(Tail(p), Tail(q))

\* FileName::appendPath
appendPath(p, part) == Append(p, part)

\* FileName::parentDir / QFileInfo::absolutePath of a file
parentDir(p) == IF p = <<>> THEN <<>> ELSE SubSeq(p, 1, Len(p) - 1)

\* ---------------------------------------------------------------- nodes
DefaultFilePriority == 100000
DefaultFolderPriority == 200000
DefaultProjectPriority == 400000

FolderTypes == {"Folder", "VirtualFolder", "Project", "Session"}

\* The line of a node that stands for no place in a file.
NoLine == -1

\* A free address: no object lives there.
NoObject ==
    [live |-> FALSE, type |-> "None", path |-> <<>>, name |-> <<>>, prio |-> 0,
     enabled |-> TRUE, parent |-> NoNode, line |-> NoLine,
     files |-> <<>>, folders |-> <<>>, projects |-> <<>>]

\* FileNode::FileNode
NewFileNode(p) ==
    [NoObject EXCEPT !.live = TRUE, !.type = "File", !.path = p, !.name = p,
                     !.prio = DefaultFilePriority]

\* FolderNode::FolderNode
NewFolderNode(p) ==
    [NoObject EXCEPT !.live = TRUE, !.type = "Folder", !.path = p, !.name = p,
                     !.prio = DefaultFolderPriority]

\* VirtualFolderNode::VirtualFolderNode
NewVirtualFolderNode(p, priority) ==
    [NoObject EXCEPT !.live = TRUE, !.type = "VirtualFolder", !.path = p, !.name = p,
                     !.prio = priority]

\* ProjectNode::ProjectNode
NewProjectNode(p) ==
    [NoObject EXCEPT !.live = TRUE, !.type = "Project", !.path = p,
                     !.name = <<Last(p)>>, !.prio = DefaultProjectPriority]

\* SessionNode::SessionNode
SessionPath == <<0>>

NewSessionNode ==
    [NoObject EXCEPT !.live = TRUE, !.type = "Session", !.path = SessionPath,
                     !.name = SessionPath, !.prio = DefaultFolderPriority]

\* The program state the operations work on: the objects, the notifications
\* ProjectTree::instance() has received during the current call, and whether
\* the call has run into undefined behaviour.
\* freed lists the addresses deleted during the call; plan is the order in
\* which the allocator hands out the free addresses during the call, and full
\* says that it ran out of them.
State(nm, plan) ==
    [node |-> nm, log |-> <<>>, ub |-> FALSE, freed |-> <<>>, plan |-> plan, full |-> FALSE]

\* Node::parentProjectNode
RECURSIVE parentProjectNode(_, _)
parentProjectNode(nm, n) ==
    LET p == nm[n].parent IN
    IF p = NoNode THEN NoNode
    ELSE IF nm[p].type = "Project" THEN p
    ELSE parentProjectNode(nm, p)

\* Node::managingProject
managingProject(nm, n) ==
    IF nm[n].type = "Session" THEN NoNode
    ELSE LET pn == parentProjectNode(nm, n) IN
         IF pn # NoNode THEN pn
         ELSE IF nm[n].type = "Project" THEN n ELSE NoNode

\* A Node::isEnabled that looks at the node's own flag only.
isEnabledOwnFlag(nm, n) == nm[n].enabled

\* Node::isEnabled
RECURSIVE isEnabled(_, _)
isEnabled(nm, n) ==
    IF ~nm[n].enabled THEN FALSE
    ELSE IF nm[n].parent # NoNode THEN isEnabled(nm, nm[n].parent) ELSE TRUE

\* ProjectTree::instance()->emit...(folder, nodes): the event and what the
\* folder's collections hold while the observer handles it.
emit(s, kind, folder, nodes) ==
    [s EXCEPT !.log = Append(@, [kind |-> kind, folder |-> folder, nodes |-> nodes,
                                 files |-> s.node[folder].files,
                                 folders |-> s.node[folder].folders,
                                 projects |-> s.node[folder].projects])]

\* A sort that leaves the list in the order given.
sortByAddressNot(q) == q

\* std::sort / Utils::sort of a list of pointers with the default comparison.
RECURSIVE sortByAddress(_)
sortByAddress(q) ==
    IF q = <<>> THEN <<>>
    ELSE LET m == CHOOSE i \in 1..Len(q) : \A j \in 1..Len(q) : q[i] <= q[j]
         IN <<q[m]>> \o sortByAddress(RemoveAt(q, m))

\* std::lower_bound(begin, end, x) on pointers: the first position whose
\* element is not less than x (position Len + 1 when there is none).
lowerBound(q, x) ==
    IF \E i \in 1..Len(q) : ~(q[i] < x)
    THEN CHOOSE i \in 1..Len(q) : ~(q[i] < x) /\ \A j \in 1..(i - 1) : q[j] < x
    ELSE Len(q) + 1

\* The insertion of addFileNodes and addFolderNodes: append to an empty list
\* or after a smaller last element, else insert at the lower bound.
sortedInsert(q, x) ==
    IF Len(q) = 0 \/ Last(q) < x THEN Append(q, x)
    ELSE InsertAt(q, lowerBound(q, x), x)

\* Node::emitNodeUpdated
emitNodeUpdated(s, n) ==
    IF s.node[n].parent # NoNode THEN emit(s, "nodeUpdated", n, <<>>) ELSE s

\* Node::setEnabled
setEnabled(s, n, enabled) ==
    IF s.node[n].enabled = enabled THEN s
    ELSE emitNodeUpdated([s EXCEPT !.node[n].enabled = enabled], n)

\* ProjectTree::instance()->emitNodeSortKey...(node): the event, with the path
\* and the line the node has while the observer handles it.
emitSortKey(s, kind, n) ==
    [s EXCEPT !.log = Append(@, [kind |-> kind, folder |-> n, nodes |-> <<>>,
                                 path |-> s.node[n].path, line |-> s.node[n].line])]

\* A sort key notification that is sent after the change only.
emitNodeSortKeyAboutToChangeNot(s, n) == s

\* Node::emitNodeSortKeyAboutToChange
emitNodeSortKeyAboutToChange(s, n) ==
    IF s.node[n].parent # NoNode THEN emitSortKey(s, "nodeSortKeyAboutToChange", n) ELSE s

\* Node::emitNodeSortKeyChanged
emitNodeSortKeyChanged(s, n) ==
    IF s.node[n].parent # NoNode THEN emitSortKey(s, "nodeSortKeyChanged", n) ELSE s

\* Node::setAbsoluteFilePathAndLine; displayName() of a file node is the file
\* name of its path.
setAbsoluteFilePathAndLine(s, n, path, line) ==
    IF s.node[n].path = path /\ s.node[n].line = line THEN s
    ELSE LET s1 == emitNodeSortKeyAboutToChange(s, n)
             s2 == [s1 EXCEPT !.node[n].path = path,
                              !.node[n].line = line,
                              !.node[n].name = IF s.node[n].type = "File" THEN path ELSE @]
             s3 == emitNodeSortKeyChanged(s2, n)
         IN emitNodeUpdated(s3, n)

\* A qDeleteAll that deletes nothing.
qDeleteNone(s, q) == s

\* ------------------------------------------------------------ destruction
\* delete of a node: FolderNode::~FolderNode deletes the folder children and
\* then the file children.  Deleting an address that holds no object is
\* undefined behaviour.
RECURSIVE destroy(_, _)
RECURSIVE qDeleteAll(_, _)
qDeleteAll(s, q) ==
    IF q = <<>> THEN s ELSE qDeleteAll(destroy(s, q[1]), Tail(q))

destroy(s, n) ==
    IF ~s.node[n].live THEN [s EXCEPT !.ub = TRUE]
    ELSE LET s1 == qDeleteAll(s, s.node[n].folders)
             s2 == qDeleteAll(s1, s.node[n].files)
         IN [s2 EXCEPT !.node[n] = NoObject, !.freed = Append(@, n)]

\* ------------------------------------------------- FolderNode primitives
\* The loop body of addFileNodes: set the parent, insert in place.
RECURSIVE addFileLoop(_, _, _)
addFileLoop(s, self, files) ==
    IF files = <<>> THEN s
    ELSE LET f == files[1]
             s1 == [s EXCEPT !.node[f].parent = self,
                             !.node[self].files = sortedInsert(@, f)]
         IN addFileLoop(s1, self, Tail(files))

\* An addFileNodes that sends no notification.
addFileNodesSilent(s, self, files) == addFileLoop(s, self, files)

\* FolderNode::addFileNodes
addFileNodes(s, self, files) ==
    IF files = <<>> THEN s
    ELSE LET s1 == emit(s, "filesAboutToBeAdded", self, files)
             s2 == addFileLoop(s1, self, files)
         IN emit(s2, "filesAdded", self, <<>>)

\* The position of x in q at or after position i, Len(q) + 1 if there is none:
\* the walk  while (*iter != *toRemoveIter) ++iter.
walkTo(q, i, x) ==
    IF \E k \in i..Len(q) : q[k] = x
    THEN CHOOSE k \in i..Len(q) : q[k] = x /\ \A j \in i..(k - 1) : q[j] # x
    ELSE Len(q) + 1

\* The loop of removeFileNodes over the sorted toRemove list; it is the
\* position of filesIter.  Walking past the end is undefined behaviour.
RECURSIVE removeFileLoop(_, _, _, _)
removeFileLoop(s, self, toRemove, it) ==
    IF toRemove = <<>> THEN s
    ELSE LET q == s.node[self].files
             k == walkTo(q, it, toRemove[1])
         IN IF k > Len(q) THEN [s EXCEPT !.ub = TRUE]
            ELSE LET s1 == destroy(s, q[k])
                     s2 == [s1 EXCEPT !.node[self].files = RemoveAt(q, k)]
                 IN removeFileLoop(s2, self, Tail(toRemove), k)

\* A removeFileNodes that removes nothing.
removeFileNodesNone(s, self, files) == s

\* FolderNode::removeFileNodes
removeFileNodes(s, self, files) ==
    IF files = <<>> THEN s
    ELSE LET toRemove == sortByAddress(files)
             s1 == emit(s, "filesAboutToBeRemoved", self, toRemove)
             s2 == removeFileLoop(s1, self, toRemove, 1)
         IN emit(s2, "filesRemoved", self, <<>>)

\* An addFolderNodes loop that leaves the parent of the folders alone.
addFolderLoopNoParent(s, self, subFolders) ==
    [s EXCEPT !.node[self].folders = sortByAddress(@ \o subFolders)]

\* The loop body of addFolderNodes.
RECURSIVE addFolderLoop(_, _, _)
addFolderLoop(s, self, subFolders) ==
    IF subFolders = <<>> THEN s
    ELSE LET f == subFolders[1]
             s1 == [s EXCEPT !.node[f].parent = self,
                             !.node[self].folders = sortedInsert(@, f)]
         IN addFolderLoop(s1, self, Tail(subFolders))

\* FolderNode::addFolderNodes
addFolderNodes(s, self, subFolders) ==
    IF subFolders = <<>> THEN s
    ELSE LET s1 == emit(s, "foldersAboutToBeAdded", self, subFolders)
             s2 == addFolderLoop(s1, self, subFolders)
         IN emit(s2, "foldersAdded", self, <<>>)

\* The loop of removeFolderNodes.
RECURSIVE removeFolderLoop(_, _, _, _)
removeFolderLoop(s, self, toRemove, it) ==
    IF toRemove = <<>> THEN s
    ELSE LET q == s.node[self].folders
             k == walkTo(q, it, toRemove[1])
         IN IF k > Len(q) THEN [s EXCEPT !.ub = TRUE]
            ELSE LET s1 == destroy(s, q[k])
                     s2 == [s1 EXCEPT !.node[self].folders = RemoveAt(q, k)]
                 IN removeFolderLoop(s2, self, Tail(toRemove), k)

\* FolderNode::removeFolderNodes
removeFolderNodes(s, self, subFolders) ==
    IF subFolders = <<>> THEN s
    ELSE LET toRemove == sortByAddress(subFolders)
             s1 == emit(s, "foldersAboutToBeRemoved", self, toRemove)
             s2 == removeFolderLoop(s1, self, toRemove, 1)
         IN emit(s2, "foldersRemoved", self, <<>>)

\* ------------------------------------- ProjectNode and SessionNode lists
\* The loop body of ProjectNode::addProjectNodes and SessionNode::addProjectNodes.
RECURSIVE addProjectLoop(_, _, _)
addProjectLoop(s, self, subProjects) ==
    IF subProjects = <<>> THEN s
    ELSE LET p == subProjects[1]
             s1 == [s EXCEPT !.node[p].parent = self,
                             !.node[self].folders = Append(@, p),
                             !.node[self].projects = Append(@, p)]
         IN addProjectLoop(s1, self, Tail(subProjects))

\* ProjectNode::addProjectNodes, SessionNode::addProjectNodes (the same body)
addProjectNodes(s, self, subProjects) ==
    IF subProjects = <<>> THEN s
    ELSE LET s1 == emit(s, "foldersAboutToBeAdded", self, subProjects)
             s2 == addProjectLoop(s1, self, subProjects)
             s3 == [s2 EXCEPT !.node[self].folders = sortByAddress(@),
                              !.node[self].projects = sortByAddress(@)]
         IN emit(s3, "foldersAdded", self, <<>>)

\* A removeProjectNodes loop that takes the projects out of m_folderNodes only.
removeProjectLoopFoldersOnly(s, self, toRemove, pit, fit, deletes) ==
    [s EXCEPT !.node[self].folders = SelectSeq(@, LAMBDA n : n \notin Range(toRemove))]

\* The loop of removeProjectNodes; pit and fit are the positions of
\* projectIter and folderIter.  The ProjectNode version deletes the project,
\* the SessionNode version does not.
RECURSIVE removeProjectLoop(_, _, _, _, _, _)
removeProjectLoop(s, self, toRemove, pit, fit, deletes) ==
    IF toRemove = <<>> THEN s
    ELSE LET ps == s.node[self].projects
             fs == s.node[self].folders
             pk == walkTo(ps, pit, toRemove[1])
             fk == walkTo(fs, fit, toRemove[1])
         IN IF pk > Len(ps) \/ fk > Len(fs) THEN [s EXCEPT !.ub = TRUE]
            ELSE LET s1 == IF deletes THEN destroy(s, ps[pk]) ELSE s
                     s2 == [s1 EXCEPT !.node[self].projects = RemoveAt(ps, pk),
                                      !.node[self].folders = RemoveAt(fs, fk)]
                 IN removeProjectLoop(s2, self, Tail(toRemove), pk, fk, deletes)

\* ProjectNode::removeProjectNodes
projectRemoveProjectNodes(s, self, subProjects) ==
    IF subProjects = <<>> THEN s
    ELSE LET toRemove == sortByAddress(subProjects)
             s1 == emit(s, "foldersAboutToBeRemoved", self, toRemove)
             s2 == removeProjectLoop(s1, self, toRemove, 1, 1, TRUE)
         IN emit(s2, "foldersRemoved", self, <<>>)

\* A SessionNode::removeProjectNodes that deletes the projects it removes.
sessionRemoveProjectNodesDeleting(s, self, projectNodes) ==
    projectRemoveProjectNodes(s, self, projectNodes)

\* SessionNode::removeProjectNodes
sessionRemoveProjectNodes(s, self, projectNodes) ==
    IF projectNodes = <<>> THEN s
    ELSE LET toRemove == sortByAddress(projectNodes)
             s1 == emit(s, "foldersAboutToBeRemoved", self, toRemove)
             s2 == removeProjectLoop(s1, self, toRemove, 1, 1, FALSE)
         IN emit(s2, "foldersRemoved", self, <<>>)

\* The virtual removeProjectNodes of a node.
removeProjectNodes(s, self, ps) ==
    IF s.node[self].type = "Session" THEN sessionRemoveProjectNodes(s, self, ps)
    ELSE projectRemoveProjectNodes(s, self, ps)

\* --------------------------------------------------------------- lookup
\* All orders of the elements of the set S.
Perms(S) == {q \in InjSeqs(S, Cardinality(S)) : Len(q) = Cardinality(S)}

\* FolderNode::fileNode
fileNode(nm, self, file) ==
    LET q == nm[self].files IN
    IF \E i \in 1..Len(q) : nm[q[i]].path = file
    THEN q[CHOOSE i \in 1..Len(q) :
               nm[q[i]].path = file /\ \A j \in 1..(i - 1) : nm[q[j]].path # file]
    ELSE NoNode

\* A folderNode that finds no folder.
folderNodeNone(nm, self, directory) == NoNode

\* FolderNode::folderNode
folderNode(nm, self, directory) ==
    LET q == nm[self].folders IN
    IF \E i \in 1..Len(q) : nm[q[i]].path = directory
    THEN q[CHOOSE i \in 1..Len(q) :
               nm[q[i]].path = directory /\ \A j \in 1..(i - 1) : nm[q[j]].path # directory]
    ELSE NoNode

\* FolderNode::recursiveFileNodes
RECURSIVE recursiveFileNodes(_, _)
RECURSIVE recursiveFileNodesOf(_, _)
recursiveFileNodesOf(nm, q) ==
    IF q = <<>> THEN <<>>
    ELSE recursiveFileNodes(nm, q[1]) \o recursiveFileNodesOf(nm, Tail(q))

recursiveFileNodes(nm, self) ==
    nm[self].files \o recursiveFileNodesOf(nm, nm[self].folders)

\* ----------------------------------- recursiveFindOrCreateFolderNode
\* The ".." segment of a relative path.
DotDot == 0 - 1

\* An empty Utils::FileName (no overrideBaseDir given).
EmptyFileName == <<DotDot, DotDot>>

RECURSIVE commonPrefix(_, _)
commonPrefix(p, q) ==
    IF p = <<>> \/ q = <<>> \/ p[1] # q[1] THEN 0
    ELSE 1 + commonPrefix(Tail(p), Tail(q))

\* QDir(base).relativeFilePath(dir), split at '/', with "." cleared: a ".."
\* for each segment of base that dir does not share, then the rest of dir.
relativeParts(base, dir) ==
    LET k == commonPrefix(base, dir)
    IN [i \in 1..(Len(base) - k) |-> DotDot] \o SubSeq(dir, k + 1, Len(dir))

\* new: the first address of the plan that holds no object.
allocate(s) ==
    LET c == {i \in 1..Len(s.plan) : ~s.node[s.plan[i]].live}
    IN IF c = {} THEN NoNode
       ELSE s.plan[CHOOSE i \in c : \A j \in c : i <= j]

\* The loop of recursiveFindOrCreateFolderNode over the parts: find the child
\* folder with the path so far, or create it and add it to the parent.
RECURSIVE findOrCreateLoop(_, _, _, _)
findOrCreateLoop(s, parent, path, parts) ==
    IF parts = <<>> THEN [s |-> s, ret |-> parent]
    ELSE LET p == appendPath(path, parts[1])
             next == folderNode(s.node, parent, p)
             tmp == allocate(s)
         IN IF next # NoNode THEN findOrCreateLoop(s, next, p, Tail(parts))
            ELSE IF tmp = NoNode THEN [s |-> [s EXCEPT !.full = TRUE], ret |-> NoNode]
            ELSE LET s1 == [s EXCEPT !.node[tmp] =
                                [NewFolderNode(p) EXCEPT !.name = <<parts[1]>>]]
                     s2 == addFolderNodes(s1, parent, <<tmp>>)
                 IN findOrCreateLoop(s2, tmp, p, Tail(parts))

\* FolderNode::recursiveFindOrCreateFolderNode
recursiveFindOrCreateFolderNode(s, self, directory, overrideBaseDir) ==
    LET path == IF overrideBaseDir = EmptyFileName THEN s.node[self].path
                ELSE overrideBaseDir
        parts == IF path = <<>> THEN directory ELSE relativeParts(path, directory)
    IN findOrCreateLoop(s, self, path, parts)

\* The loop of recursiveFileNode over the parts: dir is extended by the part
\* and the child folder with that path is looked up.
RECURSIVE recursiveFileNodeLoop(_, _, _, _, _)
recursiveFileNodeLoop(nm, parent, dir, parts, file) ==
    IF parts = <<>> THEN fileNode(nm, parent, file)
    ELSE LET d == appendPath(dir, parts[1])
             next == folderNode(nm, parent, d)
         IN IF next = NoNode THEN NoNode
            ELSE recursiveFileNodeLoop(nm, next, d, Tail(parts), file)

\* FolderNode::recursiveFileNode: dir starts as the directory of the file.
recursiveFileNode(nm, self, file) ==
    LET dir == parentDir(file)
    IN recursiveFileNodeLoop(nm, self, dir, relativeParts(nm[self].path, dir), file)

\* ------------------------------------------------------------ buildTree
\* Utils::sort(list, Node::sortByPath): std::sort leaves the order of nodes
\* with equal paths open, so every order that is sorted is a possible result.
sortedByPath(nm, q) ==
    {r \in Perms(Range(q)) :
        \A i \in 1..(Len(r) - 1) : ~PathLess(nm[r[i + 1]].path, nm[r[i]].path)}

\* compareSortedLists(oldList, newList, removedList, addedList, sortByPath):
\* the merge of two sorted lists into the nodes only in the old one and the
\* nodes only in the new one.
RECURSIVE compareSortedLists(_, _, _)
compareSortedLists(nm, old, new) ==
    IF old = <<>> THEN [removed |-> <<>>, added |-> new]
    ELSE IF new = <<>> THEN [removed |-> old, added |-> <<>>]
    ELSE IF PathLess(nm[old[1]].path, nm[new[1]].path)
         THEN LET r == compareSortedLists(nm, Tail(old), new)
              IN [r EXCEPT !.removed = <<old[1]>> \o @]
    ELSE IF PathLess(nm[new[1]].path, nm[old[1]].path)
         THEN LET r == compareSortedLists(nm, old, Tail(new))
              IN [r EXCEPT !.added = <<new[1]>> \o @]
    ELSE compareSortedLists(nm, Tail(old), Tail(new))

\* subtractSortedList(list1, list2, sortByPath): the nodes of list1 whose
\* path list2 does not hold.
RECURSIVE subtractSortedList(_, _, _)
subtractSortedList(nm, list1, list2) ==
    IF list1 = <<>> THEN <<>>
    ELSE IF list2 = <<>> THEN list1
    ELSE IF PathLess(nm[list1[1]].path, nm[list2[1]].path)
         THEN <<list1[1]>> \o subtractSortedList(nm, Tail(list1), list2)
    ELSE IF PathLess(nm[list2[1]].path, nm[list1[1]].path)
         THEN subtractSortedList(nm, list1, Tail(list2))
    ELSE subtractSortedList(nm, Tail(list1), Tail(list2))

\* mapping[key] << value of a QHash of lists, the hash being a function from
\* its keys to their lists.
hashAppend(mapping, key, value) ==
    [k \in DOMAIN mapping \cup {key} |->
        IF k = key
        THEN (IF key \in DOMAIN mapping THEN Append(mapping[key], value) ELSE <<value>>)
        ELSE mapping[k]]

EmptyHash == [k \in {} |-> <<>>]

\* A comparison that takes every old node for deleted and every new one for
\* added.
buildTreeCompareAllNew(s, old, new) == [s |-> s, added |-> new, deleted |-> old]

\* The first part of buildTree: the old and the new list are compared, and
\* the incoming nodes that are not added are deleted.
buildTreeCompare(s, old, new) ==
    LET c == compareSortedLists(s.node, old, new)
    IN [s |-> qDeleteAll(s, subtractSortedList(s.node, new, c.added)),
        added |-> c.added, deleted |-> c.removed]

\* "add added nodes": the folder of each added file is found or created.
RECURSIVE buildTreeFolders(_, _, _, _, _)
buildTreeFolders(s, self, added, overrideBaseDir, mapping) ==
    IF added = <<>> \/ s.full THEN [s |-> s, mapping |-> mapping]
    ELSE LET r == recursiveFindOrCreateFolderNode(
                      s, self, parentDir(s.node[added[1]].path), overrideBaseDir)
         IN IF r.s.full THEN [s |-> r.s, mapping |-> mapping]
            ELSE buildTreeFolders(r.s, self, Tail(added), overrideBaseDir,
                                  hashAppend(mapping, r.ret, added[1]))

\* A buildTree that inserts the added files of a folder one by one.
RECURSIVE buildTreeAddPerFile(_, _, _)
buildTreeAddPerFile(s, mapping, keys) ==
    IF keys = <<>> THEN s
    ELSE IF Len(mapping[keys[1]]) > 1
    THEN buildTreeAddPerFile(addFileNodes(s, keys[1], <<Head(mapping[keys[1]])>>),
                             [mapping EXCEPT ![keys[1]] = Tail(@)], keys)
    ELSE buildTreeAddPerFile(addFileNodes(s, keys[1], mapping[keys[1]]),
                             mapping, Tail(keys))

\* The loop over addedFolderMapping, keys being the order of the iteration.
RECURSIVE buildTreeAdd(_, _, _)
buildTreeAdd(s, mapping, keys) ==
    IF keys = <<>> THEN s
    ELSE buildTreeAdd(addFileNodes(s, keys[1], mapping[keys[1]]), mapping, Tail(keys))

\* deletedFolderMapping[fn->parentFolderNode()] << fn
RECURSIVE deletedFolderMapping(_, _, _)
deletedFolderMapping(nm, deleted, mapping) ==
    IF deleted = <<>> THEN mapping
    ELSE deletedFolderMapping(nm, Tail(deleted),
                              hashAppend(mapping, nm[deleted[1]].parent, deleted[1]))

\* A buildTree without the check for empty parents.
pruneEmptyNever(s, self, parent) == s

\* A buildTree that removes the parent of the deleted files from its own
\* parent whether it is empty or not.
pruneEmptyUnchecked(s, self, parent) ==
    removeFolderNodes(s, s.node[parent].parent, <<parent>>)

\* "Check for empty parent": the while loop that removes a folder left without
\* files and folders from its parent and goes on with the parent, up to the
\* folder buildTree was called on.
RECURSIVE pruneEmpty(_, _, _)
pruneEmpty(s, self, parent) ==
    IF parent = NoNode \/ ~s.node[parent].live THEN [s EXCEPT !.ub = TRUE]
    ELSE IF ~(s.node[parent].folders = <<>> /\ s.node[parent].files = <<>>) THEN s
    ELSE LET grandparent == s.node[parent].parent
         IN IF grandparent = NoNode \/ ~s.node[grandparent].live
            THEN [s EXCEPT !.ub = TRUE]
            ELSE LET s1 == removeFolderNodes(s, grandparent, <<parent>>)
                 IN IF grandparent = self THEN s1
                    ELSE pruneEmpty(s1, self, grandparent)

\* A buildTree that removes no old file node.
buildTreeRemoveNothing(s, self, mapping, keys) == s

\* The loop over deletedFolderMapping, keys being the order of the iteration.
RECURSIVE buildTreeRemove(_, _, _, _)
buildTreeRemove(s, self, mapping, keys) ==
    IF keys = <<>> \/ s.ub THEN s
    ELSE LET parent == keys[1]
         IN IF parent = NoNode \/ ~s.node[parent].live THEN [s EXCEPT !.ub = TRUE]
            ELSE LET s1 == removeFileNodes(s, parent, mapping[parent])
                     s2 == IF parent = self THEN s1 ELSE pruneEmpty(s1, self, parent)
                 IN buildTreeRemove(s2, self, mapping, Tail(keys))

\* FolderNode::buildTree, the sorted lists given: the set of the states it can
\* end in, one for each iteration order of the two hashes.
buildTreeSorted(s, self, old, new, overrideBaseDir) ==
    LET c == buildTreeCompare(s, old, new)
        f == buildTreeFolders(c.s, self, c.added, overrideBaseDir, EmptyHash)
    IN IF f.s.full THEN {f.s}
       ELSE UNION {LET a == buildTreeAdd(f.s, f.mapping, ka)
                       dm == deletedFolderMapping(a.node, c.deleted, EmptyHash)
                   IN {buildTreeRemove(a, self, dm, kd) : kd \in Perms(DOMAIN dm)} :
                       ka \in Perms(DOMAIN f.mapping)}

\* FolderNode::buildTree
buildTree(s, self, files, overrideBaseDir) ==
    UNION {UNION {buildTreeSorted(s, self, old, new, overrideBaseDir) :
                      new \in sortedByPath(s.node, files)} :
               old \in sortedByPath(s.node, recursiveFileNodes(s.node, self))}

\* ----------------------------------------------------------------- trim
\* A Node::trim that never looks at the keepers.
nodeTrimAlways(n, keepers) == n

\* A Node::trim with the answers exchanged.
nodeTrimKept(n, keepers) == IF n \in keepers THEN n ELSE NoNode

\* Node::trim
nodeTrim(n, keepers) == IF n \in keepers THEN NoNode ELSE n

\* Utils::filtered(toTrim, [](const Node *n) { return n; })
nonNull(q) == SelectSeq(q, LAMBDA n : n # NoNode)

\* A FolderNode::trim that trims the files and leaves the folders alone.
folderTrimFilesOnly(s, self, keepers) ==
    IF self \in keepers THEN [s |-> s, ret |-> NoNode]
    ELSE LET files == s.node[self].files
             fileTrim == nonNull([i \in 1..Len(files) |-> nodeTrim(files[i], keepers)])
         IN [s |-> removeFileNodes(s, self, fileTrim),
             ret |-> IF Len(files) # Len(fileTrim) THEN NoNode ELSE self]

\* n->trim(keepers) with the trim of the class of n; trimAll is
\* Utils::transform(list, n->trim(keepers)) and yields the list of the results.
RECURSIVE trim(_, _, _)
RECURSIVE trimAll(_, _, _)
RECURSIVE folderTrim(_, _, _)
RECURSIVE projectTrim(_, _, _)
trimAll(s, q, keepers) ==
    IF q = <<>> THEN [s |-> s, rets |-> <<>>]
    ELSE LET r == trim(s, q[1], keepers)
             rest == trimAll(r.s, Tail(q), keepers)
         IN [s |-> rest.s, rets |-> <<r.ret>> \o rest.rets]

\* FolderNode::trim
folderTrim(s, self, keepers) ==
    IF self \in keepers THEN [s |-> s, ret |-> NoNode]
    ELSE LET files == s.node[self].files
             fileTrim == nonNull([i \in 1..Len(files) |-> nodeTrim(files[i], keepers)])
             s1 == removeFileNodes(s, self, fileTrim)
             folders == s1.node[self].folders
             r == trimAll(s1, folders, keepers)
             folderTrimmed == nonNull(r.rets)
             keepThis == Len(files) # Len(fileTrim) \/ Len(folders) # Len(folderTrimmed)
             s2 == removeFolderNodes(r.s, self, folderTrimmed)
         IN [s |-> s2, ret |-> IF keepThis THEN NoNode ELSE self]

\* A ProjectNode::trim without the pass over m_projectNodes.
projectTrimFoldersOnly(s, self, keepers) == folderTrim(s, self, keepers)

\* ProjectNode::trim
projectTrim(s, self, keepers) ==
    IF self \in keepers THEN [s |-> s, ret |-> NoNode]
    ELSE LET projects == s.node[self].projects
             r == trimAll(s, projects, keepers)
             toTrim == nonNull(r.rets)
             s1 == projectRemoveProjectNodes(r.s, self, toTrim)
             f == folderTrim(s1, self, keepers)
         IN IF f.ret = NoNode THEN f
            ELSE [s |-> f.s, ret |-> IF Len(toTrim) # Len(projects) THEN NoNode ELSE self]

trim(s, n, keepers) ==
    IF ~s.node[n].live THEN [s |-> [s EXCEPT !.ub = TRUE], ret |-> NoNode]
    ELSE IF s.node[n].type = "File" THEN [s |-> s, ret |-> nodeTrim(n, keepers)]
    ELSE IF s.node[n].type = "Project" THEN projectTrim(s, n, keepers)
    ELSE folderTrim(s, n, keepers)

\* ------------------------------------------------------------ the program
Addresses == DOMAIN node

Live == {n \in Addresses : node[n].live}

Free == {n \in Addresses : ~node[n].live}

LiveFolders == {n \in Live : node[n].type \in FolderTypes}

\* The folders the FolderNode primitives may be called on: Q_ASSERT(managingProject()).
Managed == {n \in LiveFolders : managingProject(node, n) # NoNode}

\* The priorities callers give to virtual folders.
Priorities == {1, 2}

\* The objects a caller constructs before a call: objs[i] at address addrs[i].
RECURSIVE Construct(_, _, _)
Construct(nm, addrs, objs) ==
    IF addrs = <<>> THEN nm
    ELSE Construct([nm EXCEPT ![addrs[1]] = objs[1]], Tail(addrs), Tail(objs))

\* The record of the last call: the operation, its receiver and arguments,
\* the receiver as it was when the call was made, what the call returned and
\* whether it ran into undefined behaviour.  tree holds all objects as they
\* were before the call, kept for the operations that work on a whole subtree;
\* paths[i] is the path of the node args[i] of a buildTree call.
NoTree == <<>>

Call(op, self, args, pre, tree, ret, s) ==
    [op |-> op, self |-> self, args |-> args, pre |-> pre[self], tree |-> tree,
     ret |-> ret, ub |-> s.ub, freed |-> s.freed, paths |-> <<>>]

\* No call is in progress or has just returned.
NoCall ==
    [op |-> "none", self |-> NoNode, args |-> <<>>, pre |-> NoObject, tree |-> NoTree,
     ret |-> NoNode, ub |-> FALSE, freed |-> <<>>, paths |-> <<>>]

\* The caller is done with the last call and the observer with its
\* notifications: the program is ready for the next call.
Return ==
    /\ call # NoCall
    /\ node' = node
    /\ log' = <<>>
    /\ call' = NoCall

Done(op, self, args, pre, s) ==
    /\ call = NoCall
    /\ node' = s.node
    /\ log' = s.log
    /\ call' = Call(op, self, args, pre, IF args = <<>> THEN pre ELSE NoTree, NoNode, s)

SessionAddress == 1

Init ==
    /\ node = [n \in 1..MaxNodes |->
                   IF n = SessionAddress THEN NewSessionNode ELSE NoObject]
    /\ log = <<>>
    /\ call = NoCall

\* folder->addFileNodes(files) with freshly constructed file nodes
AddFileNodes ==
    \E self \in Managed, addrs \in InjSeqs(Free, MaxList) :
    \E segs \in [1..Len(addrs) -> Segs] :
        LET pre == Construct(node, addrs,
                       [i \in 1..Len(addrs) |->
                           NewFileNode(appendPath(node[self].path, segs[i]))])
        IN Done("addFileNodes", self, addrs, pre,
                addFileNodes(State(pre, <<>>), self, addrs))

\* folder->removeFileNodes(files) with children of the folder, in any order
RemoveFileNodes ==
    \E self \in Managed :
    \E files \in InjSeqs(Range(node[self].files), MaxList) :
        Done("removeFileNodes", self, files, node,
             removeFileNodes(State(node, <<>>), self, files))

\* folder->addFolderNodes(subFolders) with freshly constructed folders and
\* virtual folders
AddFolderNodes ==
    \E self \in Managed, addrs \in InjSeqs(Free, MaxList) :
    \E segs \in [1..Len(addrs) -> Segs], prios \in [1..Len(addrs) -> Priorities \cup {0}] :
        LET pre == Construct(node, addrs,
                       [i \in 1..Len(addrs) |->
                           IF prios[i] = 0
                           THEN NewFolderNode(appendPath(node[self].path, segs[i]))
                           ELSE NewVirtualFolderNode(
                                    appendPath(node[self].path, segs[i]), prios[i])])
        IN Done("addFolderNodes", self, addrs, pre,
                addFolderNodes(State(pre, <<>>), self, addrs))

\* folder->removeFolderNodes(subFolders) with children that are no projects
RemoveFolderNodes ==
    \E self \in Managed :
    \E subs \in InjSeqs({c \in Range(node[self].folders) : node[c].type # "Project"},
                        MaxList) :
        Done("removeFolderNodes", self, subs, node,
             removeFolderNodes(State(node, <<>>), self, subs))

ProjectHolders == {n \in LiveFolders : node[n].type \in {"Project", "Session"}}

\* addProjectNodes(subProjects) of a project or the session, with freshly
\* constructed project nodes
AddProjectNodes ==
    \E self \in ProjectHolders, addrs \in InjSeqs(Free, MaxList) :
    \E segs \in [1..Len(addrs) -> Segs] :
        LET pre == Construct(node, addrs,
                       [i \in 1..Len(addrs) |-> NewProjectNode(<<segs[i]>>)])
        IN Done("addProjectNodes", self, addrs, pre,
                addProjectNodes(State(pre, <<>>), self, addrs))

\* removeProjectNodes(subProjects) of a project or the session
RemoveProjectNodes ==
    \E self \in ProjectHolders :
    \E ps \in InjSeqs(Range(node[self].projects), MaxList) :
        Done("removeProjectNodes", self, ps, node,
             removeProjectNodes(State(node, <<>>), self, ps))

Next ==
    \/ AddFileNodes
    \/ RemoveFileNodes
    \/ AddFolderNodes
    \/ RemoveFolderNodes
    \/ AddProjectNodes
    \/ RemoveProjectNodes
    \/ Return

Spec == Init /\ [][Next]_vars

\* ------------------------------------------- the program: buildTree
\* A project node /a/x.pro whose files lie in the base directory /a and in
\* directories below it; the project is synchronised with file lists by
\* buildTree, called on the project (with the base directory) or on one of
\* its folders.
DirName == MaxFiles + 1

ProName == MaxFiles + 2

BuildBase == <<DirName>>

BuildDirs == {BuildBase \o [i \in 1..d |-> DirName] : d \in 0..MaxDepth}

BuildFilePaths ==
    {d \o <<f>> : d \in BuildDirs, f \in 1..MaxFiles} \ 
        {d \o <<f>> : d \in {e \in BuildDirs : Len(e) <= MaxDepth}, f \in 2..MaxFiles}

IsPrefix(p, q) == Len(p) <= Len(q) /\ SubSeq(q, 1, Len(p)) = p

RootAddress == 1

InitBuild ==
    /\ node = [n \in 1..MaxBuildNodes |->
                   IF n = RootAddress THEN NewProjectNode(BuildBase \o <<ProName>>)
                   ELSE NoObject]
    /\ log = <<>>
    /\ call = NoCall

\* The base directory of a folder buildTree is called on, and the
\* overrideBaseDir argument that goes with it.
BaseDir(n) == IF node[n].type = "Project" THEN BuildBase ELSE node[n].path

Override(n) == IF node[n].type = "Project" THEN BuildBase ELSE EmptyFileName

\* The number of folders a buildTree call creates: what a run does in which
\* the allocator hands out the free addresses in ascending order.
FoldersCreated(pre, self, files) ==
    LET s == CHOOSE r \in buildTree(State(pre, sortByAddress(SetToSeq(DOMAIN pre))),
                                    self, files, Override(self)) : TRUE
    IN Cardinality({i \in 1..Len(s.log) : s.log[i].kind = "foldersAdded"})

\* The orders in which the allocator can hand out addresses during the call.
Plans(pre, self, files) ==
    LET need == FoldersCreated(pre, self, files)
    IN {q \in InjSeqs(Free, need) : Len(q) = need}

\* folder->buildTree(files, overrideBaseDir) with a list of freshly made file
\* nodes of pairwise distinct paths below the base directory
BuildTreeOf(self, filePaths) ==
    /\ call = NoCall
    /\ \E paths \in SUBSET {p \in filePaths : IsPrefix(BaseDir(self), p)} :
       \E addrs \in Perms(paths) \X InjSeqs(Free, Cardinality(paths)) :
           /\ Len(addrs[2]) = Cardinality(paths)
           /\ \A i \in 1..(Len(addrs[2]) - 1) : addrs[2][i] < addrs[2][i + 1]
           /\ LET files == addrs[2]
                  pre == Construct(node, files,
                                   [i \in 1..Len(files) |-> NewFileNode(addrs[1][i])])
              IN \E plan \in Plans(pre, self, files) :
                 \E s \in buildTree(State(pre, plan), self, files, Override(self)) :
                     /\ ~s.full
                     /\ node' = s.node
                     /\ log' = s.log
                     /\ call' = [Call("buildTree", self, files, pre, node, NoNode, s)
                                    EXCEPT !.paths = addrs[1]]

BuildTree == \E self \in Managed : BuildTreeOf(self, BuildFilePaths)

\* folder->addFileNodes(files) by the project's own code: one new file node of
\* any path, in any folder (a file listed in a folder that is not its
\* directory, or listed a second time)
BuildAddFileNodes ==
    /\ Cardinality(Live) <= MaxOwn
    /\ \E self \in Managed, a \in Free, p \in BuildFilePaths :
        LET pre == [node EXCEPT ![a] = NewFileNode(p)]
        IN Done("addFileNodes", self, <<a>>, pre,
                addFileNodes(State(pre, <<>>), self, <<a>>))

\* folder->addFolderNodes(subFolders) by the project's own code: one new,
\* empty folder for a directory
BuildAddFolderNodes ==
    /\ Cardinality(Live) <= MaxOwn
    /\ \E self \in Managed, a \in Free, p \in BuildDirs \ {BuildBase} :
        LET pre == [node EXCEPT ![a] = NewFolderNode(p)]
        IN Done("addFolderNodes", self, <<a>>, pre,
                addFolderNodes(State(pre, <<>>), self, <<a>>))

NextBuild ==
    \/ BuildTree
    \/ BuildAddFileNodes
    \/ BuildAddFolderNodes
    \/ Return

SpecBuild == InitBuild /\ [][NextBuild]_vars

\* ------------------------------------- the program: lists with two files
\* of a directory
\* The project /a/x.pro with the directories /a/a and /a/b, each of which can
\* hold two files.
OtherName == MaxFiles + 3

OtherDir == MaxFiles + 4

BatchFilePaths ==
    {BuildBase \o <<d, f>> : d \in {DirName, OtherDir}, f \in {MaxFiles, OtherName}}

\* folder->buildTree(files, overrideBaseDir) with a list that can hold two
\* files of a directory
BuildTreeBatch == \E self \in Managed : BuildTreeOf(self, BatchFilePaths)

NextBatch ==
    \/ BuildTreeBatch
    \/ Return

SpecBatch == InitBuild /\ [][NextBatch]_vars

\* ------------------------------------------------ the program: trim
\* The nodes below a folder: its files, its folders and what is below them.
RECURSIVE subtree(_, _)
RECURSIVE subtreeAll(_, _)
subtreeAll(nm, q) ==
    IF q = <<>> THEN {} ELSE {q[1]} \cup subtree(nm, q[1]) \cup subtreeAll(nm, Tail(q))

subtree(nm, n) == Range(nm[n].files) \cup subtreeAll(nm, nm[n].folders)

InitTrim ==
    /\ node = [n \in 1..MaxTrimNodes |->
                   IF n = RootAddress THEN NewProjectNode(BuildBase \o <<ProName>>)
                   ELSE NoObject]
    /\ log = <<>>
    /\ call = NoCall

\* node->trim(keepers) on a folder of the project, keepers being nodes of
\* its subtree or the folder
Trim ==
    /\ call = NoCall
    /\ \E self \in Managed :
       \E keepers \in SUBSET ({self} \cup subtree(node, self)) :
           LET r == trim(State(node, <<>>), self, keepers)
           IN /\ node' = r.s.node
              /\ log' = r.s.log
              /\ call' = Call("trim", self, keepers, node, node, r.ret, r.s)

\* project->addProjectNodes(subProjects) with one new sub-project
TrimAddProjectNodes ==
    /\ Cardinality(Live) <= MaxOwn
    /\ \E self \in ProjectHolders, a \in Free :
        LET pre == [node EXCEPT ![a] = NewProjectNode(BuildBase \o <<ProName>>)]
        IN Done("addProjectNodes", self, <<a>>, pre,
                addProjectNodes(State(pre, <<>>), self, <<a>>))

\* file->trim(keepers) on a file node of the tree
TrimFile ==
    /\ call = NoCall
    /\ \E self \in {n \in Live : node[n].type = "File"} :
       \E keepers \in SUBSET {self, node[self].parent} :
           /\ node' = node
           /\ log' = <<>>
           /\ call' = Call("trim", self, keepers, node, node, nodeTrim(self, keepers),
                           State(node, <<>>))

\* project->buildTree(files) by the code that owns the project: the files
\* of a sub-project are given to the sub-project, not to a folder above it
TrimBuildTree ==
    \E self \in {n \in Managed : \A d \in subtree(node, n) : node[d].type # "Project"} :
        BuildTreeOf(self, BuildFilePaths)

NextTrim ==
    \/ TrimBuildTree
    \/ BuildAddFolderNodes
    \/ TrimAddProjectNodes
    \/ Trim
    \/ TrimFile
    \/ Return

SpecTrim == InitTrim /\ [][NextTrim]_vars

\* ------------------------------------------------- the program: lookup
\* folder->recursiveFileNode(file) with the path of a file below the base
\* directory
RecursiveFileNode ==
    /\ call = NoCall
    /\ \E self \in LiveFolders, file \in BuildFilePaths :
           /\ node' = node
           /\ log' = log
           /\ call' = Call("recursiveFileNode", self, file, node, node,
                           recursiveFileNode(node, self, file), State(node, <<>>))

NextLookup ==
    \/ BuildTree
    \/ RecursiveFileNode
    \/ Return

SpecLookup == InitBuild /\ [][NextLookup]_vars

\* ------------------------------ the program: folders found or created
\* The directories at or below the directory of a folder, down to one level
\* below the deepest directory with files.
TargetDirs(n) ==
    {d \in {node[n].path \o [i \in 1..k |-> DirName] : k \in 0..(MaxDepth + 1)} :
        Len(d) <= Len(BuildBase) + MaxDepth + 1}

\* folder->recursiveFindOrCreateFolderNode(directory) on a folder of the
\* project, with a directory at or below the one of the folder
RecursiveFindOrCreateFolderNode ==
    /\ call = NoCall
    /\ \E self \in {n \in Managed : node[n].type = "Folder"} :
       \E directory \in TargetDirs(self) :
       \E plan \in {q \in InjSeqs(Free, MaxDepth + 1) :
                        Len(q) = MaxDepth + 1 \/ Len(q) = Cardinality(Free)} :
           LET r == recursiveFindOrCreateFolderNode(State(node, plan), self, directory,
                                                    EmptyFileName)
           IN /\ ~r.s.full
              /\ node' = r.s.node
              /\ log' = r.s.log
              /\ call' = Call("recursiveFindOrCreateFolderNode", self, <<directory>>,
                              node, node, r.ret, r.s)

NextFolders ==
    \/ BuildTree
    \/ RecursiveFindOrCreateFolderNode
    \/ Return

SpecFolders == InitBuild /\ [][NextFolders]_vars

\* --------------------------------------------------- the program: scan
\* The double values of the progress computation, as exact fractions: every
\* value is a sum of quotients of the progress range by entry counts.
\* The arithmetic is done by functions of numbers, whose arguments are values.
gcd[a \in Nat, b \in Nat] == IF b = 0 THEN a ELSE gcd[b, a % b]

Double[n \in Nat, d \in Nat] ==
    LET g == gcd[n, d] IN [num |-> n \div g, den |-> d \div g]

plus[an \in Nat, ad \in Nat, bn \in Nat, bd \in Nat] ==
    LET l == (ad \div gcd[ad, bd]) * bd
    IN Double[an * (l \div ad) + bn * (l \div bd), l]

\* a + b
DoublePlus(a, b) == plus[a.num, a.den, b.num, b.den]

\* a / static_cast<double>(n), n > 0
DoubleDividedBy(a, n) == Double[a.num, a.den * n]

\* static_cast<int>(a) of a value that is not negative
StaticCastInt(a) == a.num \div a.den

\* future->setProgressRange(0, 1000000)
ProgressMaximum == 1000000

\* A directory entry: a file (dir = 0) or a directory, given by the canonical
\* directory it is or links to; ignored is the answer of
\* vcsControl->isVcsFileOrDirectory for it.
ScanDirs == 1..MaxScanDirs

NoDir == 0

Entries == [dir : {NoDir} \cup ScanDirs, ignored : BOOLEAN]

\* The results QDir::entryInfoList can give for a directory.
EntryLists == UNION {[1..k -> Entries] : k \in 0..MaxEntries}

StartDir == 1

\* One activation of scanForFilesRecursively: its directory (canonical
\* directory and path as given), the entries listed, the position of the for
\* loop, the result so far and where it stands: at the visited check
\* ("enter"), at the cancellation check of an entry ("check"), at the entry
\* after its check ("process") or in the call for a sub-directory ("wait").
\* progressStart and progressRange are the arguments of the call, progress
\* and lastIntProgress its local variables.
Frame(dir, path, progressStart, progressRange) ==
    [dir |-> dir, path |-> path, entries |-> <<>>, idx |-> 1, result |-> <<>>,
     pc |-> "enter", progressStart |-> progressStart, progressRange |-> progressRange,
     progress |-> Double[0, 1], lastIntProgress |-> 0]

\* FileNode::scanForFiles: the file system, an empty visited set and the first
\* call of scanForFilesRecursively; the FileNode objects the factory makes go
\* to node, the listings and factory calls to log.
InitScan ==
    /\ node = [n \in 1..(MaxScanDirs * MaxEntries) |-> NoObject]
    /\ log = <<>>
    /\ \E fs \in [ScanDirs -> EntryLists] :
           call = [op |-> "scanForFiles", fs |-> fs, visited |-> {},
                   canceled |-> FALSE, done |-> FALSE, ret |-> <<>>,
                   stack |-> <<Frame(StartDir, <<StartDir>>, Double[0, 1],
                                     Double[ProgressMaximum, 1])>>]

top == call.stack[Len(call.stack)]

\* progressRange / static_cast<double>(entries.count()), used only inside the
\* loop, where there is at least one entry.
progressIncrement(f) == DoubleDividedBy(f.progressRange, Len(f.entries))

\* The end of the loop body, if (future) { progress += progressIncrement; ... }:
\* the frame afterwards and the values given to future->setProgressValue.
advance(f) ==
    LET progress == DoublePlus(f.progress, progressIncrement(f))
        sum == StaticCastInt(DoublePlus(f.progressStart, progress))
        intProgress == IF sum < ProgressMaximum THEN sum ELSE ProgressMaximum
    IN [frame |-> [f EXCEPT !.progress = progress,
                            !.lastIntProgress = IF @ < intProgress THEN intProgress ELSE @,
                            !.idx = @ + 1,
                            !.pc = "check"],
        sets |-> IF f.lastIntProgress < intProgress THEN <<intProgress>> ELSE <<>>]

\* The value of the setProgressValue call that follows the loop.
finalProgress(f) ==
    LET sum == StaticCastInt(DoublePlus(f.progressStart, f.progressRange))
    IN IF sum < ProgressMaximum THEN sum ELSE ProgressMaximum

\* The log entries of a sequence of setProgressValue calls.
progressEvents(c, sets) ==
    [i \in 1..Len(sets) |-> [kind |-> "setProgressValue", dir |-> NoDir,
                             canceled |-> c.canceled, value |-> sets[i]]]

\* return result: the frame is left; the caller appends the list to its own
\* and ends the loop body of the entry, and the first caller has the list of
\* the scan.  c is the call afterwards, sets the values the caller gives to
\* setProgressValue.
scanReturn(c, result) ==
    LET n == Len(c.stack)
    IN IF n = 1
       THEN [c |-> [c EXCEPT !.stack = <<>>, !.done = TRUE, !.ret = result], sets |-> <<>>]
       ELSE LET a == advance([c.stack[n - 1] EXCEPT !.result = @ \o result])
            IN [c |-> [c EXCEPT !.stack = Append(SubSeq(c.stack, 1, n - 2), a.frame)],
                sets |-> a.sets]

\* A scan that takes no directory for visited.
alreadyVisitedNever(visited, dir) == FALSE

\* "Do not follow directory loops": the canonical path is inserted and the
\* call returns when the set did not grow.
alreadyVisited(visited, dir) == dir \in visited

\* A scan that ignores no entry.
skipEntryNever(e) == FALSE

\* The negation of !vcsControl || !vcsControl->isVcsFileOrDirectory(entryName)
skipEntry(e) == e.ignored

\* A scan that never sees the cancellation.
isCanceledNever(c) == FALSE

\* future && future->isCanceled()
isCanceled(c) == c.canceled

\* The entry of scanForFilesRecursively up to the for loop.
ScanEnter ==
    /\ ~call.done /\ top.pc = "enter"
    /\ node' = node
    /\ IF alreadyVisited(call.visited, top.dir)
       THEN LET r == scanReturn(call, <<>>)
            IN /\ call' = r.c
               /\ log' = log \o progressEvents(call, r.sets)
       ELSE /\ call' = [call EXCEPT !.visited = @ \cup {top.dir},
                                   !.stack[Len(call.stack)].entries = call.fs[top.dir],
                                   !.stack[Len(call.stack)].pc = "check"]
            /\ log' = Append(log, [kind |-> "entryInfoList", dir |-> top.dir,
                                   canceled |-> call.canceled])

\* The head of the for loop: the end of the entries, with the last
\* setProgressValue and the return, or
\* if (future && future->isCanceled()) return result.
ScanCheck ==
    /\ ~call.done /\ top.pc = "check"
    /\ node' = node
    /\ IF top.idx > Len(top.entries)
       THEN LET r == scanReturn(call, top.result)
            IN /\ call' = r.c
               /\ log' = log \o progressEvents(call, <<finalProgress(top)>> \o r.sets)
       ELSE IF isCanceled(call)
       THEN LET r == scanReturn(call, top.result)
            IN /\ call' = r.c
               /\ log' = log \o progressEvents(call, r.sets)
       ELSE /\ call' = [call EXCEPT !.stack[Len(call.stack)].pc = "process"]
            /\ log' = log

\* The body of the for loop for one entry: an ignored entry is skipped, a
\* directory is scanned by a recursive call, a file is given to the factory.
ScanProcess ==
    /\ ~call.done /\ top.pc = "process"
    /\ LET n == Len(call.stack)
           e == top.entries[top.idx]
           entryName == Append(top.path, top.idx)
           free == {a \in DOMAIN node : ~node[a].live}
           a == CHOOSE x \in free : \A y \in free : x <= y
       IN IF skipEntry(e)
          THEN LET r == advance(top)
               IN /\ call' = [call EXCEPT !.stack[n] = r.frame]
                  /\ node' = node
                  /\ log' = log \o progressEvents(call, r.sets)
          ELSE IF e.dir # NoDir
          THEN /\ n <= Cardinality(DOMAIN call.fs)
               /\ call' = [call EXCEPT !.stack =
                               Append([@ EXCEPT ![n].pc = "wait"],
                                      Frame(e.dir, entryName, top.progress,
                                            progressIncrement(top)))]
               /\ node' = node /\ log' = log
          ELSE LET r == advance([top EXCEPT !.result = Append(@, a)])
               IN /\ free # {}
                  /\ node' = [node EXCEPT ![a] = NewFileNode(entryName)]
                  /\ log' = Append(log, [kind |-> "factory", dir |-> top.dir,
                                         canceled |-> call.canceled, idx |-> top.idx,
                                         node |-> a])
                             \o progressEvents(call, r.sets)
                  /\ call' = [call EXCEPT !.stack[n] = r.frame]

\* future->cancel() by another thread, at any moment of the scan
ScanCancel ==
    /\ ~call.done /\ ~call.canceled
    /\ call' = [call EXCEPT !.canceled = TRUE]
    /\ node' = node /\ log' = log

ScanStep == ScanEnter \/ ScanCheck \/ ScanProcess

NextScan ==
    \/ ScanEnter
    \/ ScanCheck
    \/ ScanProcess
    \/ ScanCancel

SpecScan == InitScan /\ [][NextScan]_vars

\* The thread of the scan keeps running.
SpecScanFair == SpecScan /\ WF_vars(ScanStep)

\* ----------------------------------------- the program: scan progress
\* A scan that is not cancelled, of a file system of more directories whose
\* entries the version control ignores none of.
ProgressDirs == 1..MaxProgressDirs

ProgressEntryLists ==
    UNION {[1..k -> [dir : {NoDir} \cup ProgressDirs, ignored : {FALSE}]] : k \in 0..MaxEntries}

InitProgress ==
    /\ node = [n \in 1..(MaxProgressDirs * MaxEntries) |-> NoObject]
    /\ log = <<>>
    /\ \E fs \in [ProgressDirs -> ProgressEntryLists] :
           call = [op |-> "scanForFiles", fs |-> fs, visited |-> {},
                   canceled |-> FALSE, done |-> FALSE, ret |-> <<>>,
                   stack |-> <<Frame(StartDir, <<StartDir>>, Double[0, 1],
                                     Double[ProgressMaximum, 1])>>]

NextProgress ==
    \/ ScanEnter
    \/ ScanCheck
    \/ ScanProcess

SpecProgress == InitProgress /\ [][NextProgress]_vars

\* ------------------------------------------- the program: node properties
\* node->setEnabled(enabled) on a node of the tree
SetEnabled ==
    /\ call = NoCall
    /\ \E self \in Live, enabled \in BOOLEAN :
           LET s == setEnabled(State(node, <<>>), self, enabled)
           IN /\ node' = s.node
              /\ log' = s.log
              /\ call' = Call("setEnabled", self, <<enabled>>, node, node, NoNode, s)

NextNode ==
    \/ AddFileNodes
    \/ AddFolderNodes
    \/ AddProjectNodes
    \/ RemoveFolderNodes
    \/ RemoveProjectNodes
    \/ SetEnabled
    \/ Return

SpecNode == Init /\ [][NextNode]_vars

\* --------------------------------------------- the program: sort keys
\* The lines callers give to a node.
Lines == {NoLine, 1}

\* node->setAbsoluteFilePathAndLine(path, line) on a node of the tree, with
\* the path it has or another one
SetAbsoluteFilePathAndLine ==
    /\ call = NoCall
    /\ \E self \in Live, line \in Lines :
       \E path \in {node[self].path, <<1>>} :
           LET s == setAbsoluteFilePathAndLine(State(node, <<>>), self, path, line)
           IN /\ node' = s.node
              /\ log' = s.log
              /\ call' = Call("setAbsoluteFilePathAndLine", self, <<path, line>>, node, node,
                              NoNode, s)

NextSortKey ==
    \/ AddFileNodes
    \/ AddProjectNodes
    \/ SetAbsoluteFilePathAndLine
    \/ Return

SpecSortKey == Init /\ [][NextSortKey]_vars

\* --------------------------- the program: calls against the assertions
\* QTC_ASSERT(cond, qDebug(...)) reports a failed condition and goes on with
\* the statement that follows it: the calls below are made with arguments the
\* assertions of the loops speak about, and the loops run as written.

\* The folders above the folder n, following parentFolderNode().
RECURSIVE foldersAbove(_, _)
foldersAbove(nm, n) ==
    IF nm[n].parent = NoNode THEN {} ELSE {nm[n].parent} \cup foldersAbove(nm, nm[n].parent)

\* folder->removeFolderNodes(subFolders) with children of the folder, one of
\* them a project node
MisuseRemoveFolderNodes ==
    /\ call = NoCall
    /\ \E self \in Managed :
       \E subs \in InjSeqs(Range(node[self].folders), MaxList) :
           /\ \E i \in 1..Len(subs) : node[subs[i]].type = "Project"
           /\ LET s == removeFolderNodes(State(node, <<>>), self, subs)
              IN /\ node' = s.node
                 /\ log' = s.log
                 /\ call' = Call("removeFolderNodes", self, subs, node, node, NoNode, s)

\* folder->addFileNodes(files) with file nodes that are children of a folder
MisuseAddFileNodes ==
    /\ call = NoCall
    /\ \E self \in Managed :
       \E files \in InjSeqs({n \in Live : node[n].type = "File" /\ node[n].parent # NoNode},
                             MaxList) :
           /\ files # <<>>
           /\ LET s == addFileNodes(State(node, <<>>), self, files)
              IN /\ node' = s.node
                 /\ log' = s.log
                 /\ call' = Call("addFileNodes", self, files, node, node, NoNode, s)

\* folder->addFolderNodes(subFolders) with folders that are children of a
\* folder, none of them the folder itself or a folder above it
MisuseAddFolderNodes ==
    /\ call = NoCall
    /\ \E self \in Managed :
       \E subs \in InjSeqs({n \in Live : /\ node[n].type \in {"Folder", "VirtualFolder"}
                                         /\ node[n].parent # NoNode
                                         /\ n \notin {self} \cup foldersAbove(node, self)},
                            MaxList) :
           /\ subs # <<>>
           /\ LET s == addFolderNodes(State(node, <<>>), self, subs)
              IN /\ node' = s.node
                 /\ log' = s.log
                 /\ call' = Call("addFolderNodes", self, subs, node, node, NoNode, s)

\* Every child of a folder is alive, has the folder for its parent and is
\* listed once.
Intact ==
    \A f \in LiveFolders :
        /\ \A n \in Range(node[f].files) \cup Range(node[f].folders) \cup Range(node[f].projects) :
               node[n].live /\ node[n].parent = f
        /\ IsInjective(node[f].files) /\ IsInjective(node[f].folders)
        /\ IsInjective(node[f].projects)

\* The calls are followed up to the first one that leaves a list with a
\* destroyed node, with a node of another folder or with a node twice.
IntactReturn == ~call.ub /\ Intact /\ Return

NextMisuse ==
    \/ AddFileNodes
    \/ AddFolderNodes
    \/ AddProjectNodes
    \/ MisuseRemoveFolderNodes
    \/ MisuseAddFileNodes
    \/ MisuseAddFolderNodes
    \/ IntactReturn

SpecMisuse == Init /\ [][NextMisuse]_vars

\* ------------------------------- the program: projects added again
\* project->addProjectNodes(subProjects) with sub-projects the project has
\* already: the condition !project->parentFolderNode() ||
\* project->parentFolderNode() == this holds for each of them
ReAddProjectNodes ==
    /\ call = NoCall
    /\ \E self \in {n \in LiveFolders : node[n].type = "Project"} :
       \E ps \in InjSeqs({q \in Range(node[self].projects) : node[q].parent = self},
                          MaxList) :
           /\ ps # <<>>
           /\ LET s == addProjectNodes(State(node, <<>>), self, ps)
              IN /\ node' = s.node
                 /\ log' = s.log
                 /\ call' = Call("addProjectNodes", self, ps, node, node, NoNode, s)

NextReAdd ==
    \/ AddFileNodes
    \/ AddProjectNodes
    \/ RemoveProjectNodes
    \/ ReAddProjectNodes
    \/ IntactReturn

SpecReAdd == Init /\ [][NextReAdd]_vars

KeyOrdered(a, b) ==
    IF node[a].type # node[b].type THEN node[a].type = "VirtualFolder"
    ELSE IF node[a].prio # node[b].prio THEN node[a].prio > node[b].prio
    ELSE ~PathLess(node[b].name, node[a].name)

\* C6: in every folder, folderNodes() is ordered by the composite key: virtual
\* folders before real folders, descending priority within a bucket, name
\* order at equal priority.
FolderNodesSortedByKey ==
    \A f \in LiveFolders : \A i, j \in 1..Len(node[f].folders) :
        LET a == node[f].folders[i]
            b == node[f].folders[j]
        IN (i < j /\ {node[a].type, node[b].type} \subseteq {"Folder", "VirtualFolder"})
               => KeyOrdered(a, b)

\* C7: for every project node and the session, the nodes of projectNodes() are
\* exactly the Project-typed nodes of folderNodes().
ProjectNodesAreProjectFolders ==
    \A h \in ProjectHolders :
        Range(node[h].projects)
            = {c \in Range(node[h].folders) : node[c].type = "Project"}

\* C7 witness: a project that holds a sub-project beside a plain folder,
\* after a removeProjectNodes call that removed something elsewhere.
ProjectBesideFolderAfterRemove ==
    /\ call.op = "removeProjectNodes"
    /\ call.args # <<>>
    /\ \E h \in ProjectHolders :
           /\ node[h].projects # <<>>
           /\ \E c \in Range(node[h].folders) : node[c].type # "Project"

\* C8: every node held in a file, folder or project collection of a folder has
\* that folder as its parentFolderNode().
ChildrenPointBack ==
    \A f \in LiveFolders :
        \A c \in Range(node[f].files) \cup Range(node[f].folders) \cup Range(node[f].projects) :
            node[c].parent = f

\* C8 witness: a folder below a project below the session, holding a file.
NestedChildren ==
    \E f \in LiveFolders :
        /\ node[f].type = "Folder"
        /\ node[f].files # <<>>
        /\ node[f].parent # NoNode
        /\ node[node[f].parent].parent = SessionAddress

ListOps ==
    {"addFileNodes", "removeFileNodes", "addFolderNodes", "removeFolderNodes",
     "addProjectNodes", "removeProjectNodes"}

AboutKind(op) ==
    CASE op = "addFileNodes" -> "filesAboutToBeAdded"
      [] op = "removeFileNodes" -> "filesAboutToBeRemoved"
      [] op \in {"addFolderNodes", "addProjectNodes"} -> "foldersAboutToBeAdded"
      [] OTHER -> "foldersAboutToBeRemoved"

DoneKind(op) ==
    CASE op = "addFileNodes" -> "filesAdded"
      [] op = "removeFileNodes" -> "filesRemoved"
      [] op \in {"addFolderNodes", "addProjectNodes"} -> "foldersAdded"
      [] OTHER -> "foldersRemoved"

\* The child collections an event of a file operation or of a folder
\* operation is about.
Collections(op, obj) ==
    IF op \in {"addFileNodes", "removeFileNodes"} THEN <<obj.files>>
    ELSE <<obj.folders, obj.projects>>

\* C9: a list operation called with a non-empty list emits exactly one about-to
\* event and one matching done event for its folder, the first while the
\* collection has its pre-call content and the second when it has its
\* post-call content, and nothing else; called with an empty list it emits
\* nothing and changes nothing.
NotificationsBracketMutation ==
    call.op \in ListOps =>
        IF call.args = <<>>
        THEN log = <<>> /\ node = call.tree
        ELSE /\ Len(log) = 2
             /\ log[1].kind = AboutKind(call.op)
             /\ log[2].kind = DoneKind(call.op)
             /\ log[1].folder = call.self
             /\ log[2].folder = call.self
             /\ Collections(call.op, log[1]) = Collections(call.op, call.pre)
             /\ Collections(call.op, log[2]) = Collections(call.op, node[call.self])
             /\ Collections(call.op, log[1]) # Collections(call.op, log[2])

\* C9 witness: a removal of two folders at once has been notified.
TwoFoldersRemovedNotified ==
    /\ call.op = "removeFolderNodes"
    /\ Len(call.args) = 2
    /\ Len(log) = 2

\* ------------------------------------------------ properties of buildTree
PathsOf(nm, q) == {nm[q[i]].path : i \in 1..Len(q)}

DistinctPaths(nm, q) == \A i, j \in 1..Len(q) : nm[q[i]].path = nm[q[j]].path => i = j

\* The files below the folder buildTree was called on, before and after the call.
OldFiles == recursiveFileNodes(call.tree, call.self)

NewFiles == recursiveFileNodes(node, call.self)

\* C1: after buildTree on a folder whose files had pairwise distinct paths,
\* with a list of pairwise distinct paths below the base directory, the paths
\* of recursiveFileNodes() are exactly the paths of the list.
BuildTreeYieldsIncomingPaths ==
    (call.op = "buildTree" /\ DistinctPaths(call.tree, OldFiles))
        => (~call.ub /\ PathsOf(node, NewFiles) = Range(call.paths))

\* C1 witness: a call that removed a file, added a file and kept a file.
BuildTreeRemovedAddedKept ==
    /\ call.op = "buildTree"
    /\ DistinctPaths(call.tree, OldFiles)
    /\ PathsOf(call.tree, OldFiles) \ Range(call.paths) # {}
    /\ Range(call.paths) \ PathsOf(call.tree, OldFiles) # {}
    /\ Range(call.paths) \cap PathsOf(call.tree, OldFiles) # {}

\* C2: buildTree run again with a list of the paths the folder already has
\* (what a first run with these paths leaves) changes nothing: no node is
\* added, removed or created, and no notification is sent.
BuildTreeIdempotent ==
    (/\ call.op = "buildTree"
     /\ DistinctPaths(call.tree, OldFiles)
     /\ PathsOf(call.tree, OldFiles) = Range(call.paths))
        => (~call.ub /\ node = call.tree /\ log = <<>>)

\* C2 witness: a second run with two files, one of them in a sub-directory.
BuildTreeRerun ==
    /\ call.op = "buildTree"
    /\ PathsOf(call.tree, OldFiles) = Range(call.paths)
    /\ Len(call.args) = 2
    /\ call.tree[call.self].folders # <<>>

\* The folders below a folder.
RECURSIVE foldersBelow(_, _)
RECURSIVE foldersBelowAll(_, _)
foldersBelowAll(nm, q) ==
    IF q = <<>> THEN {} ELSE foldersBelow(nm, q[1]) \cup {q[1]} \cup foldersBelowAll(nm, Tail(q))

foldersBelow(nm, n) == foldersBelowAll(nm, nm[n].folders)

IsEmptyFolder(obj) == obj.files = <<>> /\ obj.folders = <<>>

\* C3: after buildTree no folder below the folder it was called on is left
\* without files and folders by the call (one that is, was so before), the
\* folders removed are destroyed, and the folder it was called on stays where
\* it is, even when it ends up with no children.
BuildTreePrunesEmptyFolders ==
    call.op = "buildTree" =>
        /\ ~call.ub
        /\ node[call.self].live
        /\ node[call.self].parent = call.pre.parent
        /\ call.pre.parent # NoNode
               => call.self \in Range(node[call.pre.parent].folders)
        /\ \A d \in foldersBelow(node, call.self) :
               IsEmptyFolder(node[d])
                   => /\ d \in foldersBelow(call.tree, call.self)
                      /\ IsEmptyFolder(call.tree[d])
        /\ \A d \in foldersBelow(call.tree, call.self) \ foldersBelow(node, call.self) :
               d \in Range(call.freed)

\* C3 witness: buildTree called on a folder below the project took its last
\* files away: the chain of folders below it is gone, the folder itself stays,
\* empty.
InvocationFolderLeftEmpty ==
    /\ call.op = "buildTree"
    /\ call.pre.parent # NoNode
    /\ foldersBelow(call.tree, call.self) # {}
    /\ IsEmptyFolder(node[call.self])

\* C4: for a path that the tree and the list both hold, the tree keeps its
\* node, unchanged and where it was, and the node of the list is deleted and
\* never added; no two files below the folder have the same path afterwards.
BuildTreeKeepsExistingNodes ==
    call.op = "buildTree" =>
        /\ \A i \in 1..Len(call.args) :
               call.paths[i] \in PathsOf(call.tree, OldFiles)
                   => /\ call.args[i] \in Range(call.freed)
                      /\ call.args[i] \notin Range(NewFiles)
                      /\ \A k \in 1..Len(log) :
                             log[k].kind = "filesAboutToBeAdded"
                                 => call.args[i] \notin Range(log[k].nodes)
                      /\ \E o \in Range(OldFiles) :
                             /\ call.tree[o].path = call.paths[i]
                             /\ o \notin Range(call.freed)
                             /\ node[o] = call.tree[o]
                             /\ o \in Range(node[node[o].parent].files)
        /\ DistinctPaths(node, NewFiles)

\* C4 witness: a call whose list holds a path of the tree and a new path.
BuildTreeWithKnownAndNewPath ==
    /\ call.op = "buildTree"
    /\ \E i, j \in 1..Len(call.args) :
           /\ call.paths[i] \in PathsOf(call.tree, OldFiles)
           /\ call.paths[j] \notin PathsOf(call.tree, OldFiles)
           /\ Len(call.paths[i]) > Len(BuildBase) + 1

\* ----------------------------------------------------- properties of trim
\* The folders from d up to the folder n (both included), in the tree nm.
RECURSIVE chainUpTo(_, _, _)
chainUpTo(nm, d, n) ==
    IF d = n \/ d = NoNode THEN {n} ELSE {d} \cup chainUpTo(nm, nm[d].parent, n)

\* A trim call whose keep set holds every file below the folder.
TrimKeepsAllFiles ==
    /\ call.op = "trim"
    /\ Range(recursiveFileNodes(call.tree, call.self)) \subseteq call.args

TrimNothingKept ==
    /\ call.op = "trim"
    /\ call.args = {}
    /\ subtree(call.tree, call.self) # {}

TrimOfLeaf == call.op = "trim" /\ call.tree[call.self].type = "File"

TrimOfProject == call.op = "trim" /\ call.tree[call.self].type = "Project"

\* The nodes of a set of the old tree that hold a member of the keep set, in
\* themselves or below.
HoldsKeeper(n) == ({n} \cup subtree(call.tree, n)) \cap call.args # {}

TrimOfFolderNotKept ==
    /\ call.op = "trim"
    /\ call.tree[call.self].type \in FolderTypes
    /\ call.self \notin call.args

\* C14 as stated: after trim on a folder that is not in the keep set, every
\* node left in its subtree is a member of the keep set.
TrimLeavesOnlyKeepers ==
    TrimOfFolderNotKept =>
        \A n \in subtree(node, call.self) : n \in call.args

\* C14 as amended: after trim on a folder that is not in the keep set, every
\* file left in its subtree is a member of the keep set or lies below a folder
\* that is one, and every folder left is a member, lies below a member or
\* holds a member in its subtree.
TrimLeavesKeepersAndTheirFolders ==
    TrimOfFolderNotKept =>
        /\ ~call.ub
        /\ \A n \in subtree(node, call.self) :
               \/ chainUpTo(node, n, call.self) \cap call.args # {}
               \/ /\ node[n].type \in FolderTypes
                  /\ subtree(node, n) \cap call.args # {}

\* C14 witness: a trim that removed something, left a folder outside the keep
\* set around a kept node, and left a file outside the keep set below a kept
\* folder.
TrimLeftFolderOfKeptFile ==
    /\ TrimOfFolderNotKept
    /\ call.freed # <<>>
    /\ \E n \in subtree(node, call.self) :
           /\ node[n].type \in FolderTypes
           /\ n \notin call.args
           /\ subtree(node, n) \cap call.args # {}
    /\ \E n \in subtree(node, call.self) :
           /\ node[n].type = "File"
           /\ n \notin call.args
           /\ node[n].parent \in call.args

\* ------------------------------------------------ properties of the nodes
\* The node n and the folders above it, following parentFolderNode().
AncestorsAndSelf(nm, n) == chainUpTo(nm, n, NoNode) \ {NoNode}

\* C15: isEnabled() of a node is true exactly when the own flag of the node
\* and of every folder above it is true; setEnabled changes the flag of its
\* node only, so that disabling a node makes isEnabled() false for everything
\* below it and enabling it again gives every node the value the other flags
\* determine, as before.
EnabledIsConjunctionOfChain ==
    /\ \A n \in Live :
           isEnabled(node, n) <=> \A a \in AncestorsAndSelf(node, n) : node[a].enabled
    /\ call.op = "setEnabled" =>
           /\ node = [call.tree EXCEPT ![call.self].enabled = call.args[1]]
           /\ \A n \in Live :
                  IF call.self \in AncestorsAndSelf(node, n)
                  THEN isEnabled(node, n) <=>
                           /\ call.args[1]
                           /\ \A a \in AncestorsAndSelf(node, n) \ {call.self} :
                                  call.tree[a].enabled
                  ELSE isEnabled(node, n) <=> isEnabled(call.tree, n)

\* C15 witness: a project has just been disabled; the file in a folder of it,
\* whose own flag and whose folder's flag are set, is not enabled.
FileBelowDisabledProject ==
    /\ call.op = "setEnabled"
    /\ call.args = <<FALSE>>
    /\ call.pre.enabled
    /\ node[call.self].type = "Project"
    /\ \E f \in Live :
           /\ node[f].type = "File"
           /\ node[f].enabled
           /\ node[f].parent # call.self
           /\ node[node[f].parent].enabled
           /\ call.self \in AncestorsAndSelf(node, f)
           /\ ~isEnabled(node, f)

\* The Project-typed folders above the node n.
ProjectsAbove(nm, n) ==
    {a \in AncestorsAndSelf(nm, n) \ {n} : nm[a].type = "Project"}

\* The nearest of them, none when there is none.
NearestProjectAbove(nm, n) ==
    IF ProjectsAbove(nm, n) = {} THEN NoNode
    ELSE CHOOSE a \in ProjectsAbove(nm, n) :
             \A b \in ProjectsAbove(nm, n) : b \in AncestorsAndSelf(nm, a)

\* C16: managingProject() is none for the session, the node itself for every
\* project node, a sub-project included, and for every other node its nearest
\* project above, none when there is no project above it.
ManagingProjectOfEveryNode ==
    \A n \in Live :
        managingProject(node, n) =
            IF node[n].type = "Session" THEN NoNode
            ELSE IF node[n].type = "Project" THEN n
            ELSE NearestProjectAbove(node, n)

\* ------------------------------------------------ properties of the lookup
\* Every folder below n, and n, has the path of its parent folder plus one
\* segment as the path of each child folder, and every file is in the folder
\* of its directory.
MirrorsDirectories(nm, n) ==
    \A d \in {n} \cup foldersBelow(nm, n) :
        /\ \A c \in Range(nm[d].folders) : parentDir(nm[c].path) = nm[d].path
        /\ \A f \in Range(nm[d].files) : parentDir(nm[f].path) = nm[d].path

\* C17: on a folder whose subtree mirrors the directories,
\* recursiveFileNode(path) returns the file node with the path when the
\* subtree holds one, at any depth, and none when it holds none.
RecursiveFileNodeFindsFile ==
    (call.op = "recursiveFileNode" /\ MirrorsDirectories(node, call.self)) =>
        LET found == {f \in Range(recursiveFileNodes(node, call.self)) :
                          node[f].path = call.args}
        IN IF found = {} THEN call.ret = NoNode ELSE call.ret \in found

\* -------------------------------------------------- properties of the scan
\* The events of one kind in the log.
ScanEvents(kind) == SelectSeq(log, LAMBDA e : e.kind = kind)

\* No canonical directory has been listed twice.
ListedAtMostOnce ==
    \A i, j \in 1..Len(ScanEvents("entryInfoList")) :
        ScanEvents("entryInfoList")[i].dir = ScanEvents("entryInfoList")[j].dir => i = j

\* C18: scanForFiles terminates on every directory graph, with symlink cycles
\* or without, and lists the entries of each canonical directory at most once.
ScanTerminatesListingOnce == []ListedAtMostOnce /\ <>call.done

\* C18 witness: a scan that was not cancelled has returned from two
\* directories that link to each other and to themselves.
ScanOfCycleReturned ==
    /\ call.done /\ ~call.canceled
    /\ call.visited = ScanDirs
    /\ \A d \in ScanDirs :
           {call.fs[d][i].dir : i \in 1..Len(call.fs[d])} = ScanDirs
    /\ \A d \in ScanDirs : \A i \in 1..Len(call.fs[d]) : ~call.fs[d][i].ignored

\* The canonical directories reached from the directories S through entries
\* that are not ignored.
RECURSIVE ReachedFrom(_)
ReachedFrom(S) ==
    LET T == S \cup {x \in ScanDirs :
                        \E d \in S : \E k \in 1..Len(call.fs[d]) :
                            call.fs[d][k].dir = x /\ ~call.fs[d][k].ignored}
    IN IF T = S THEN S ELSE ReachedFrom(T)

\* The file entries, as <<directory, position>>, that are not ignored and lie
\* in the directories S.
FileEntriesIn(S) ==
    {<<d, i>> : d \in S, i \in 1..MaxEntries} \cap
        {x \in ScanDirs \X (1..MaxEntries) :
            /\ x[2] <= Len(call.fs[x[1]])
            /\ call.fs[x[1]][x[2]].dir = NoDir
            /\ ~call.fs[x[1]][x[2]].ignored}

\* C19: a scan that was not cancelled returns exactly one file node, made by
\* the factory, for every file entry that is not ignored and lies in the start
\* directory or in a directory reached from it through directories that are
\* not ignored, and no node for anything else.
ScanReturnsFilesOfReachedDirs ==
    (call.done /\ ~call.canceled) =>
        LET made == ScanEvents("factory")
        IN /\ call.visited = ReachedFrom({StartDir})
           /\ {<<made[k].dir, made[k].idx>> : k \in 1..Len(made)}
                  = FileEntriesIn(ReachedFrom({StartDir}))
           /\ Len(made) = Cardinality(FileEntriesIn(ReachedFrom({StartDir})))
           /\ call.ret = [k \in 1..Len(made) |-> made[k].node]
           /\ IsInjective(call.ret)
           /\ \A k \in 1..Len(call.ret) : node[call.ret[k]].type = "File"

\* C19 witness: a scan that was not cancelled has returned the files of two
\* directories and left out an ignored entry.
ScanSkippedIgnoredEntry ==
    /\ call.done /\ ~call.canceled
    /\ call.visited = ScanDirs
    /\ Len(call.ret) >= 2
    /\ \E k \in 1..Len(call.ret) : Len(node[call.ret[k]].path) > 2
    /\ \E d \in ScanDirs : \E i \in 1..Len(call.fs[d]) : call.fs[d][i].ignored

\* The events of one kind that happened while the cancellation flag was set.
AfterCancel(kind) == SelectSeq(ScanEvents(kind), LAMBDA e : e.canceled)

\* C20 as stated: once the cancellation flag is set the factory is never
\* called again, and the list returned holds exactly the nodes made before.
NoFactoryCallOnceCanceled ==
    /\ AfterCancel("factory") = <<>>
    /\ call.done =>
           call.ret = [k \in 1..Len(ScanEvents("factory")) |-> ScanEvents("factory")[k].node]

\* C20 as amended: the flag is polled before each entry at every level; once
\* it is set the scan finishes at most the entry whose poll had already
\* passed, so the factory is called at most once more and no other entry is
\* begun, and the list returned holds exactly the nodes the factory made up to
\* then.
OnlyEntryInProgressOnceCanceled ==
    /\ Len(AfterCancel("factory")) <= 1
    /\ Len(AfterCancel("factory"))
           + Len(SelectSeq(AfterCancel("entryInfoList"), LAMBDA e : e.dir # StartDir)) <= 1
    /\ \A k \in 1..Len(call.stack) :
           (call.canceled /\ call.stack[k].pc = "process")
               => (k = Len(call.stack) /\ AfterCancel("factory") = <<>>
                       /\ AfterCancel("entryInfoList") = <<>>)
    /\ call.done =>
           call.ret = [k \in 1..Len(ScanEvents("factory")) |-> ScanEvents("factory")[k].node]

\* C20 witness: a scan cancelled inside a sub-directory has returned a part
\* of the files, one of them from the sub-directory.
ScanCanceledInSubDirectory ==
    /\ call.done /\ call.canceled
    /\ \E k \in 1..Len(call.ret) : Len(node[call.ret[k]].path) > 2
    /\ Len(call.ret) < Cardinality(FileEntriesIn(ReachedFrom({StartDir})))

\* ------------------------------------------ properties of scan progress
\* The values given to future->setProgressValue, in order.
ProgressValues ==
    [i \in 1..Len(ScanEvents("setProgressValue")) |-> ScanEvents("setProgressValue")[i].value]

\* C21: during a scan that is not cancelled, of a directory tree of any shape
\* and depth, the values passed to the progress setter never decrease and
\* never exceed the progress maximum, and the last one is the maximum.
ProgressMonotoneUpToMaximum ==
    ~call.canceled =>
        /\ \A i \in 1..(Len(ProgressValues) - 1) : ProgressValues[i] <= ProgressValues[i + 1]
        /\ \A i \in 1..Len(ProgressValues) : ProgressValues[i] <= ProgressMaximum
        /\ call.done =>
               (ProgressValues # <<>> /\ ProgressValues[Len(ProgressValues)] = ProgressMaximum)

\* ------------------------------- properties of calls against assertions
\* C22: removeFolderNodes rejects the removal of a project child: the project
\* is neither taken out of folderNodes() nor destroyed by the call, so that
\* projectNodes() never holds a node that folderNodes() lacks or that has been
\* destroyed.
RemoveFolderNodesRejectsProjects ==
    /\ call.op = "removeFolderNodes" =>
           \A i \in 1..Len(call.args) :
               call.tree[call.args[i]].type = "Project" =>
                   /\ node[call.args[i]].live
                   /\ call.args[i] \in Range(node[call.self].folders)
    /\ \A f \in LiveFolders : \A p \in Range(node[f].projects) :
           node[p].live /\ p \in Range(node[f].folders)

\* C23: addFileNodes and addFolderNodes do not insert a node that has a
\* parent folder already: the node stays a child of its first parent only,
\* with parentFolderNode() unchanged, and is never a child of two folders.
AddRejectsParentedNodes ==
    /\ (call.op \in {"addFileNodes", "addFolderNodes"} /\ call.tree # NoTree) =>
           \A i \in 1..Len(call.args) :
               LET n == call.args[i]
                   first == call.tree[n].parent
               IN first # NoNode =>
                      /\ node[n].parent = first
                      /\ \A f \in LiveFolders :
                             n \in Range(node[f].files) \cup Range(node[f].folders) => f = first
    /\ \A f, g \in LiveFolders :
           f # g => (Range(node[f].files) \cup Range(node[f].folders))
                        \cap (Range(node[g].files) \cup Range(node[g].folders)) = {}

\* ------------------------------------- properties of removeProjectNodes
\* C24: SessionNode::removeProjectNodes takes each given project out of
\* projectNodes() and folderNodes() of the session and destroys nothing, the
\* project and the nodes below it stay alive; ProjectNode::removeProjectNodes
\* takes each given sub-project out of both lists and destroys it.
SessionKeepsProjectDestroys ==
    (call.op = "removeProjectNodes" /\ ~call.ub) =>
        \A i \in 1..Len(call.args) :
            LET p == call.args[i] IN
            /\ p \notin Range(node[call.self].projects)
            /\ p \notin Range(node[call.self].folders)
            /\ IF call.pre.type = "Session"
               THEN /\ call.freed = <<>>
                    /\ node[p].live /\ node[p].type = "Project"
                    /\ \A d \in subtree(node, p) : node[d].live
               ELSE /\ p \in Range(call.freed)
                    /\ ~node[p].live

\* C24 witness: the session has removed a project that holds a node, and the
\* project and the node are alive.
SessionRemovedProjectWithChild ==
    /\ call.op = "removeProjectNodes" /\ call.pre.type = "Session"
    /\ \E i \in 1..Len(call.args) :
           /\ call.args[i] \in Range(call.pre.projects)
           /\ subtree(node, call.args[i]) # {}
           /\ \A d \in subtree(node, call.args[i]) : node[d].live

\* ------------------------------------------- properties of the removals
\* The list of children a removal works on, before and after the call.
RemovalListBefore == IF call.op = "removeFileNodes" THEN call.pre.files ELSE call.pre.folders

RemovalListAfter ==
    IF call.op = "removeFileNodes" THEN node[call.self].files ELSE node[call.self].folders

LogKinds == [i \in 1..Len(log) |-> log[i].kind]

\* C26: setAbsoluteFilePathAndLine on a node with a parent, with another path
\* or line, sends sort-key-about-to-change, sort-key-changed and updated for
\* the node, in this order, the path and line being the old ones at the first
\* and the new ones at the second; with the path and line the node has it
\* sends nothing and changes nothing; on a node without a parent it changes
\* path and line and sends nothing.
SortKeyChangeIsBracketed ==
    call.op = "setAbsoluteFilePathAndLine" =>
        LET path == call.args[1]
            line == call.args[2]
        IN /\ \A n \in DOMAIN node : n # call.self => node[n] = call.tree[n]
           /\ IF call.pre.path = path /\ call.pre.line = line
              THEN log = <<>> /\ node = call.tree
              ELSE /\ node[call.self].path = path /\ node[call.self].line = line
                   /\ IF call.pre.parent = NoNode THEN log = <<>>
                      ELSE /\ LogKinds = <<"nodeSortKeyAboutToChange", "nodeSortKeyChanged",
                                           "nodeUpdated">>
                           /\ \A i \in 1..3 : log[i].folder = call.self
                           /\ log[1].path = call.pre.path /\ log[1].line = call.pre.line
                           /\ log[2].path = path /\ log[2].line = line

\* C26 witness: a file node of a project was given another path and a line.
SortKeyOfFileChanged ==
    /\ call.op = "setAbsoluteFilePathAndLine"
    /\ call.pre.type = "File" /\ call.pre.parent # NoNode
    /\ call.pre.path # call.args[1] /\ call.pre.line # call.args[2]
    /\ Len(log) = 3

\* ------------------------------------------ properties of the parent
\* C27: every live node whose parentFolderNode() is set is a child of that
\* folder; a project the session has removed, which survives the removal, has
\* no parent afterwards, so that it meets the condition of addProjectNodes
\* when it is added again.
ParentHoldsItsChild ==
    /\ \A n \in Live :
           node[n].parent # NoNode =>
               n \in Range(node[node[n].parent].files) \cup Range(node[node[n].parent].folders)
    /\ (call.op = "removeProjectNodes" /\ call.pre.type = "Session") =>
           \A i \in 1..Len(call.args) : node[call.args[i]].parent = NoNode

\* ------------------------- properties of recursiveFindOrCreateFolderNode
\* The folders from the folder returned up to the folder called, the latter
\* left out, and the folders among them that the call has created.
FoundChain == chainUpTo(node, call.ret, call.self) \ {call.self}

CreatedByCall == {n \in Live : ~call.tree[n].live}

\* C28: recursiveFindOrCreateFolderNode(targetDir) on a managed folder whose
\* path is targetDir or a directory above it returns a folder with the path
\* targetDir that a chain of folders joins to the folder called, one folder
\* for each path segment, each with the path of its parent plus the segment;
\* folders that exist are reused and only the missing ones are created, the
\* folder called is returned for its own path, and a second call with the
\* same argument creates nothing and returns the same node.
FindOrCreateReturnsChain ==
    call.op = "recursiveFindOrCreateFolderNode" =>
        LET dir == call.args[1]
            again == recursiveFindOrCreateFolderNode(State(node, SetToSeq(Free)), call.self,
                                                     dir, EmptyFileName)
        IN /\ ~call.ub
           /\ call.ret \in {call.self} \cup subtree(node, call.self)
           /\ node[call.ret].type \in FolderTypes /\ node[call.ret].path = dir
           /\ Cardinality(FoundChain) = Len(dir) - Len(call.pre.path)
           /\ \A c \in FoundChain :
                  /\ node[c].type = "Folder"
                  /\ c \in Range(node[node[c].parent].folders)
                  /\ node[c].path # <<>>
                  /\ node[c].path = appendPath(node[node[c].parent].path, Last(node[c].path))
                  /\ IF c \in CreatedByCall
                     THEN \/ node[c].parent \in CreatedByCall
                          \/ folderNode(call.tree, node[c].parent, node[c].path) = NoNode
                     ELSE /\ call.tree[c].parent = node[c].parent
                          /\ call.tree[c].path = node[c].path
           /\ CreatedByCall \subseteq FoundChain
           /\ \A n \in DOMAIN node :
                  n \notin CreatedByCall =>
                      node[n] = [call.tree[n] EXCEPT !.folders = node[n].folders]
           /\ dir = call.pre.path => (call.ret = call.self /\ node = call.tree)
           /\ again.ret = call.ret /\ again.s.node = node /\ again.s.log = <<>>

\* C28 witness: the call has reused one folder below the folder called and
\* created one below that.
FoundOneCreatedOne ==
    /\ call.op = "recursiveFindOrCreateFolderNode"
    /\ Cardinality(FoundChain) = 2
    /\ Cardinality(FoundChain \cap CreatedByCall) = 1
    /\ node[call.ret].path = call.args[1]

\* ------------------------------ properties of the removals of buildTree
\* The notifications of the call that announce a removal.
IsRemoval(e) == e.kind \in {"filesAboutToBeRemoved", "foldersAboutToBeRemoved"}

\* C29: in buildTree, whatever the order in which the groups of deleted files
\* are handled, nothing is done to a folder that an earlier step of the call
\* has removed and destroyed: a folder whose own files still await removal is
\* not pruned as an empty parent, and each folder is removed at most once.
BuildTreeLeavesRemovedFoldersAlone ==
    call.op = "buildTree" =>
        /\ ~call.ub
        /\ IsInjective(call.freed)
        /\ \A i, j \in 1..Len(log) :
               (i < j /\ IsRemoval(log[i])) =>
                   \A x \in Range(log[i].nodes) :
                       log[j].folder # x /\ x \notin Range(log[j].nodes)

\* C29 witness: the files of a folder and of a folder below it were deleted,
\* the group of the upper folder was handled first and both folders were
\* pruned.
UpperGroupHandledFirst ==
    /\ call.op = "buildTree"
    /\ \E i, j \in 1..Len(log) :
           /\ i < j
           /\ log[i].kind = "filesAboutToBeRemoved"
           /\ log[j].kind = "filesAboutToBeRemoved"
           /\ call.tree[log[j].folder].parent = log[i].folder
           /\ ~node[log[i].folder].live /\ ~node[log[j].folder].live

\* ------------------------------------------- properties of the entries
\* C30: after any sequence of add and remove calls whose assertions all hold
\* no node is listed twice in fileNodes(), folderNodes() or projectNodes() of
\* a folder; ProjectNode::addProjectNodes with a project that is a child of
\* the node already adds no second entry.
NoNodeListedTwice ==
    \A f \in LiveFolders :
        /\ IsInjective(node[f].files)
        /\ IsInjective(node[f].folders)
        /\ IsInjective(node[f].projects)

\* ----------------------------- properties of the notifications of buildTree
AboutToKinds ==
    {"foldersAboutToBeAdded", "filesAboutToBeAdded",
     "filesAboutToBeRemoved", "foldersAboutToBeRemoved"}

\* The notification that ends the pair an about-to notification begins.
PairEnd(kind) ==
    CASE kind = "foldersAboutToBeAdded" -> "foldersAdded"
      [] kind = "filesAboutToBeAdded" -> "filesAdded"
      [] kind = "filesAboutToBeRemoved" -> "filesRemoved"
      [] kind = "foldersAboutToBeRemoved" -> "foldersRemoved"

\* The part of buildTree a notification belongs to: the creation of folders,
\* the insertion of files, the removals.
Phase(e) ==
    CASE e.kind \in {"foldersAboutToBeAdded", "foldersAdded"} -> 1
      [] e.kind \in {"filesAboutToBeAdded", "filesAdded"} -> 2
      [] OTHER -> 3

\* C31: the notifications of one buildTree call are complete about-to/done
\* pairs that are not nested; the folders-added pairs come first, then the
\* files-added pairs, at most one for each destination folder, and then the
\* files-removed and folders-removed pairs; a files-added pair names a folder
\* of the tree before the call or one that an earlier pair announced as
\* added, and no notification names a folder after the pair that announced
\* its removal.
BuildTreeNotifiesInBatches ==
    call.op = "buildTree" =>
        /\ Len(log) % 2 = 0
        /\ \A i \in 1..Len(log) :
               i % 2 = 1 =>
                   /\ log[i].kind \in AboutToKinds
                   /\ log[i + 1].kind = PairEnd(log[i].kind)
                   /\ log[i + 1].folder = log[i].folder
        /\ \A i, j \in 1..Len(log) : i < j => Phase(log[i]) <= Phase(log[j])
        /\ \A i, j \in 1..Len(log) :
               (i < j /\ log[i].kind = "filesAboutToBeAdded"
                      /\ log[j].kind = "filesAboutToBeAdded") =>
                   log[i].folder # log[j].folder
        /\ \A j \in 1..Len(log) :
               log[j].kind = "filesAboutToBeAdded" =>
                   \/ /\ call.tree[log[j].folder].live
                      /\ call.tree[log[j].folder].type \in FolderTypes
                   \/ \E i \in 1..(j - 2) :
                          /\ log[i].kind = "foldersAboutToBeAdded"
                          /\ log[j].folder \in Range(log[i].nodes)
        /\ \A i, j \in 1..Len(log) :
               (i + 1 < j /\ log[i].kind = "foldersAboutToBeRemoved") =>
                   \A x \in Range(log[i].nodes) :
                       log[j].folder # x /\ x \notin Range(log[j].nodes)

\* C31 witness: one call created a folder, gave it two files in one pair,
\* removed an old file and removed the folder that was left empty.
TwoFilesIntoCreatedFolder ==
    /\ call.op = "buildTree"
    /\ \E i, j \in 1..Len(log) :
           /\ log[i].kind = "foldersAboutToBeAdded"
           /\ log[j].kind = "filesAboutToBeAdded"
           /\ log[j].folder \in Range(log[i].nodes)
           /\ Len(log[j].nodes) = 2
    /\ \E i, j \in 1..Len(log) :
           /\ log[i].kind = "filesAboutToBeRemoved"
           /\ log[j].kind = "foldersAboutToBeRemoved"
           /\ log[i].folder \in Range(log[j].nodes)

====
